---- MODULE Spec2Model ----
(***************************************************************************)
(* The reader / printer core of the mal implementation impls/rust.2:       *)
(* parser.rs (tokenizer), reader.rs (recursive-descent reader),            *)
(* printer.rs (pr_str) and types.rs (Value, Atom).                         *)
(*                                                                         *)
(* Text is a sequence of characters, each character a one-character        *)
(* string.  Rust strings are UTF-8: the parser's cursor is a BYTE offset,  *)
(* so every character has a width in bytes (Width).                        *)
(* Option<T> is a sequence of length at most one: None is << >>, Some(x)   *)
(* is <<x>>.                                                               *)
(***************************************************************************)
EXTENDS Integers, Sequences, FiniteSets, TLC

VARIABLES
    input,     \* Parser.input: the text handed to read_str
    pos,       \* Parser.pos: the tokenizer's cursor, a byte offset
    tokens,    \* the token vector tokenize() is filling
    result,    \* Option of read_str's Result<Value, ReadError>
    output,    \* Option of the text pr_str returned
    printed,   \* Option of the value that was printed, kept for the read-back
    pass,      \* 1: first read; 2: read-back of the printed text
    origin,    \* "read": the first value was read from a text; "built": a caller built it
    pc,        \* "tokenize" | "read" | "print" | "printed" | "done" | "abort" | "repl"
    loop,      \* main's loop: "none" (no REPL) | "readline" | "rep" | "exited" | "panicked"
    line,      \* Option of the outcome of the last editor.readline call
    stdout,    \* the texts println! wrote, in order
    stderr,    \* the errors eprintln! wrote, in order
    turn       \* the number of editor.readline calls that have returned

replVars == <<loop, line, stdout, stderr, turn>>

vars == <<input, pos, tokens, result, output, printed, pass, origin, pc,
          loop, line, stdout, stderr, turn>>

None == << >>
Some(x) == <<x>>

(***************************************************************************)
(* Characters                                                              *)
(***************************************************************************)
\* Characters that a string literal here cannot hold go by their code point.
BACKQUOTE == "U+0060"   \* GRAVE ACCENT
NBSP == "U+00A0"        \* NO-BREAK SPACE: char::is_whitespace holds of it
POUND == "U+00A3"       \* POUND SIGN, in is_symbol_character's punctuation
NOT_SIGN == "U+00AC"    \* NOT SIGN, in is_symbol_character's punctuation
E_ACUTE == "U+00E9"     \* LATIN SMALL LETTER E WITH ACUTE: char::is_alphanumeric

Digits == {"0", "1", "2", "3", "4", "5", "6", "7", "8", "9"}

Letters ==
    {"a", "b", "c", "d", "e", "f", "g", "h", "i", "j", "k", "l", "m", "n", "o",
     "p", "q", "r", "s", "t", "u", "v", "w", "x", "y", "z", E_ACUTE}

\* the punctuation of is_symbol_character
SymbolPunctuation ==
    {"!", POUND, "$", "%", "&", "*", "-", "_", "=", "+", "<", ">", ".", "#",
     "|", NOT_SIGN, "/", "?"}

\* the characters whose UTF-8 encoding is two bytes long
TwoByteChars == {NBSP, POUND, NOT_SIGN, E_ACUTE}

Width(c) == IF c \in TwoByteChars THEN 2 ELSE 1

is_whitespace(c) == c \in {" ", "\n", "\t", NBSP}

is_alphanumeric(c) == c \in Letters \cup Digits

is_symbol_character(c) == is_alphanumeric(c) \/ c \in SymbolPunctuation

RECURSIVE ByteLen(_)
ByteLen(s) == IF s = << >> THEN 0 ELSE Width(Head(s)) + ByteLen(Tail(s))

(***************************************************************************)
(* Parser (parser.rs)                                                      *)
(***************************************************************************)
\* self.input[self.pos..].chars().next(): the character starting at byte
\* offset p, "None" at the end of the input, and "panic" when p is not a
\* character boundary (the slice aborts the thread).
RECURSIVE PeekFrom(_, _, _, _)
PeekFrom(s, i, off, p) ==
    IF off > p THEN "panic"
    ELSE IF i > Len(s) THEN (IF off = p THEN "None" ELSE "panic")
    ELSE IF off = p THEN s[i]
    ELSE PeekFrom(s, i + 1, off + Width(s[i]), p)

peek(s, p) == PeekFrom(s, 1, 0, p)

\* consume_char: the cursor moves by ONE byte, whatever the character
consume_char(p) == p + 1

\* expect_char
expect_char(s, p, expected) ==
    LET c == peek(s, p) IN
    IF c = "panic" THEN [st |-> "panic"]
    ELSE IF c = "None"
         THEN [st |-> "err", error |-> [err |-> "UnexpectedEndOfInput", pos |-> p]]
    ELSE IF c = expected THEN [st |-> "ok", pos |-> consume_char(p)]
    ELSE [st |-> "err",
          error |-> [err |-> "UnexpectedCharacter", got |-> c,
                     expected |-> Some(expected), pos |-> p]]

\* consume_whitespace: the cursor after the run of whitespace and commas
RECURSIVE consume_whitespace(_, _)
consume_whitespace(s, p) ==
    LET c == peek(s, p) IN
    IF c = "panic" THEN [st |-> "panic"]
    ELSE IF c # "None" /\ (c = "," \/ is_whitespace(c))
         THEN consume_whitespace(s, consume_char(p))
    ELSE [st |-> "ok", pos |-> p]

Predicate(name, c) ==
    IF name = "is_symbol_character" THEN is_symbol_character(c)
    ELSE is_alphanumeric(c)

\* take_while, with the text collected so far in acc
RECURSIVE TakeWhileFrom(_, _, _, _)
TakeWhileFrom(s, p, predicate, acc) ==
    LET c == peek(s, p) IN
    IF c = "panic" THEN [st |-> "panic"]
    ELSE IF c = "None" \/ ~Predicate(predicate, c)
         THEN [st |-> "ok", text |-> acc, pos |-> p]
    ELSE TakeWhileFrom(s, consume_char(p), predicate, Append(acc, c))

take_while(s, p, predicate) == TakeWhileFrom(s, p, predicate, << >>)

(***************************************************************************)
(* str::parse::<i32>                                                       *)
(***************************************************************************)
I32_MAX == 2147483647
I32_MIN == -2147483647 - 1

DigitVal(c) ==
    CASE c = "0" -> 0 [] c = "1" -> 1 [] c = "2" -> 2 [] c = "3" -> 3
      [] c = "4" -> 4 [] c = "5" -> 5 [] c = "6" -> 6 [] c = "7" -> 7
      [] c = "8" -> 8 [] c = "9" -> 9

\* the digits are accumulated with checked_mul(10) and checked_add /
\* checked_sub: a step that would leave the i32 range is an Err
RECURSIVE ParseDigits(_, _, _, _)
ParseDigits(s, i, acc, negative) ==
    IF i > Len(s) THEN [ok |-> TRUE, int |-> acc]
    ELSE IF s[i] \notin Digits THEN [ok |-> FALSE]
    ELSE LET d == DigitVal(s[i]) IN
         IF negative
         THEN IF acc < (I32_MIN + d + 9) \div 10 THEN [ok |-> FALSE]
              ELSE ParseDigits(s, i + 1, acc * 10 - d, negative)
         ELSE IF acc > (I32_MAX - d) \div 10 THEN [ok |-> FALSE]
              ELSE ParseDigits(s, i + 1, acc * 10 + d, negative)

ParseI32(s) ==
    IF s = << >> THEN [ok |-> FALSE]
    ELSE IF s[1] \in {"+", "-"}
         THEN IF Len(s) = 1 THEN [ok |-> FALSE]
              ELSE ParseDigits(s, 2, 0, s[1] = "-")
    ELSE ParseDigits(s, 1, 0, FALSE)

(***************************************************************************)
(* Tokens                                                                  *)
(***************************************************************************)
Tok(name) == [tok |-> name]
TokText(name, text) == [tok |-> name, text |-> text]
TokInt(n) == [tok |-> "Int", int |-> n]

\* parse_bare_sequence's classification of the captured text
ClassifyBare(sequence) ==
    IF sequence = <<"n", "i", "l">> THEN Tok("Nil")
    ELSE IF sequence = <<"t", "r", "u", "e">> THEN Tok("True")
    ELSE IF sequence = <<"f", "a", "l", "s", "e">> THEN Tok("False")
    ELSE LET r == ParseI32(sequence) IN
         IF r.ok THEN TokInt(r.int) ELSE TokText("Symbol", sequence)

parse_bare_sequence(s, p) ==
    LET r == take_while(s, p, "is_symbol_character") IN
    IF r.st = "panic" THEN r
    ELSE [st |-> "token", tok |-> ClassifyBare(r.text), pos |-> r.pos]

parse_keyword(s, p) ==
    LET e == expect_char(s, p, ":") IN
    IF e.st # "ok" THEN e
    ELSE LET r == take_while(s, e.pos, "is_alphanumeric") IN
         IF r.st = "panic" THEN r
         ELSE [st |-> "token", tok |-> TokText("Keyword", r.text), pos |-> r.pos]

\* the loop of parse_string: st is "break" when the loop ended
RECURSIVE StringLoop(_, _, _, _)
StringLoop(s, p, acc, escaping) ==
    LET c == peek(s, p) IN
    IF c = "panic" THEN [st |-> "panic"]
    ELSE IF c = "None" THEN [st |-> "break", text |-> acc, pos |-> p]
    ELSE IF c \in {"\\", "\""} /\ escaping
         THEN StringLoop(s, consume_char(p), Append(acc, c), FALSE)
    ELSE IF c = "n" /\ escaping
         THEN StringLoop(s, consume_char(p), Append(acc, "\n"), FALSE)
    ELSE IF c = "\\" /\ ~escaping
         THEN StringLoop(s, consume_char(p), acc, TRUE)
    ELSE IF c = "\"" /\ ~escaping
         THEN [st |-> "break", text |-> acc, pos |-> p]
    ELSE IF escaping
         THEN [st |-> "err",
               error |-> [err |-> "UnknownEscapeSequence", ch |-> c, pos |-> p]]
    ELSE StringLoop(s, consume_char(p), Append(acc, c), escaping)

parse_string(s, p) ==
    LET open == expect_char(s, p, "\"") IN
    IF open.st # "ok" THEN open
    ELSE LET body == StringLoop(s, open.pos, << >>, FALSE) IN
         IF body.st # "break" THEN body
         ELSE LET close == expect_char(s, body.pos, "\"") IN
              IF close.st # "ok" THEN close
              ELSE [st |-> "token", tok |-> TokText("String", body.text),
                    pos |-> close.pos]

SingleCharToken(c) ==
    CASE c = "(" -> Tok("LParen") [] c = ")" -> Tok("RParen")
      [] c = "[" -> Tok("LBracket") [] c = "]" -> Tok("RBracket")
      [] c = "{" -> Tok("LBrace") [] c = "}" -> Tok("RBrace")
      [] c = "'" -> Tok("Quote") [] c = BACKQUOTE -> Tok("Quasiquote")
      [] c = "@" -> Tok("Deref") [] c = "^" -> Tok("WithMeta")

\* parse_token: st is "token" for Ok(Some(tok)), "none" for Ok(None), "err"
\* for Err(error) and "panic" when a peek aborted
parse_token(s, p0) ==
    LET w == consume_whitespace(s, p0) IN
    IF w.st = "panic" THEN w
    ELSE
    LET p == w.pos
        c == peek(s, p)
    IN  IF c = "panic" THEN [st |-> "panic"]
        ELSE IF c = ";" THEN [st |-> "none", pos |-> p]
        ELSE IF c \in {"(", ")", "[", "]", "{", "}", "'", BACKQUOTE, "@", "^"}
             THEN [st |-> "token", tok |-> SingleCharToken(c),
                   pos |-> consume_char(p)]
        ELSE IF c = "~"
             THEN LET n == peek(s, consume_char(p)) IN
                  IF n = "panic" THEN [st |-> "panic"]
                  ELSE IF n = "@"
                       THEN [st |-> "token", tok |-> Tok("SpliceUnquote"),
                             pos |-> consume_char(consume_char(p))]
                  ELSE [st |-> "token", tok |-> Tok("Unquote"),
                        pos |-> consume_char(p)]
        ELSE IF c = ":" THEN parse_keyword(s, p)
        ELSE IF c = "\"" THEN parse_string(s, p)
        ELSE IF c = "None" THEN [st |-> "none", pos |-> p]
        ELSE IF is_symbol_character(c) THEN parse_bare_sequence(s, p)
        ELSE [st |-> "err",
              error |-> [err |-> "UnexpectedCharacter", got |-> c,
                         expected |-> None, pos |-> p]]

\* Parser::tokenize run to its end from cursor p with the tokens toks
RECURSIVE TokenizeFrom(_, _, _)
TokenizeFrom(s, p, toks) ==
    LET r == parse_token(s, p) IN
    IF r.st = "token" THEN TokenizeFrom(s, r.pos, Append(toks, r.tok))
    ELSE IF r.st = "none" THEN [st |-> "ok", tokens |-> toks, pos |-> r.pos]
    ELSE r

\* parser::tokenize
tokenize(s) == TokenizeFrom(s, 0, << >>)

(***************************************************************************)
(* Values (types.rs)                                                       *)
(***************************************************************************)
AtomText(kind, text) == [kind |-> kind, text |-> text]   \* Symbol, Keyword, String
AtomInt(n) == [kind |-> "Int", int |-> n]
AtomNamed(kind) == [kind |-> kind]                       \* Nil, True, False

ValueAtom(atom) == [type |-> "Atom", atom |-> atom]
ValueList(items) == [type |-> "List", items |-> items]
ValueVector(items) == [type |-> "Vector", items |-> items]
\* a HashMap<Atom, Value> is a function from its set of keys
ValueHashMap(map) == [type |-> "HashMap", map |-> map]

Symbol(name) == ValueAtom(AtomText("Symbol", name))

\* HashMap::insert: a key already there keeps its place and takes the value
Insert(map, k, v) == [x \in (DOMAIN map) \cup {k} |-> IF x = k THEN v ELSE map[x]]

EmptyMap == [x \in {} |-> 0]

(***************************************************************************)
(* Reader (reader.rs).  The cursor of a Reader is an index into the token  *)
(* vector, counted from 0; every operation returns the cursor it leaves.   *)
(***************************************************************************)
Ok(value, p) == [ok |-> TRUE, value |-> value, pos |-> p]
Err(error, p) == [ok |-> FALSE, error |-> error, pos |-> p]

UnexpectedEndOfInput(p) == [err |-> "UnexpectedEndOfInput", pos |-> p]
UnexpectedToken(t, p) ==
    [err |-> "UnexpectedToken", got |-> t, expected |-> None, pos |-> p]
UnhashableType(value, p) == [err |-> "UnhashableType", value |-> value, pos |-> p]
UnevenHashMap(p) == [err |-> "UnevenHashMap", pos |-> p]
NoInput == [err |-> "NoInput"]
Parse(error) == [err |-> "Parse", error |-> error]

\* Reader::peek
reader_peek(toks, p) == IF p < Len(toks) THEN Some(toks[p + 1]) ELSE None

\* the symbol a reader-macro token is rewritten to
MacroName(t) ==
    CASE t.tok = "Quote" -> <<"q", "u", "o", "t", "e">>
      [] t.tok = "Quasiquote" -> <<"q", "u", "a", "s", "i", "q", "u", "o", "t", "e">>
      [] t.tok = "Unquote" -> <<"u", "n", "q", "u", "o", "t", "e">>
      [] t.tok = "SpliceUnquote" ->
            <<"s", "p", "l", "i", "c", "e", "-", "u", "n", "q", "u", "o", "t", "e">>
      [] t.tok = "Deref" -> <<"d", "e", "r", "e", "f">>
      [] t.tok = "WithMeta" -> <<"w", "i", "t", "h", "-", "m", "e", "t", "a">>

\* with-meta keeping the order of the tokens
WithMetaList_token_order(metadata, target) ==
    ValueList(<<Symbol(<<"w", "i", "t", "h", "-", "m", "e", "t", "a">>), metadata, target>>)

\* the list read_atom builds for with-meta: the target, read second, comes
\* before the metadata, read first
WithMetaList(metadata, target) ==
    ValueList(<<Symbol(MacroName(Tok("WithMeta"))), target, metadata>>)

\* the pairing loop of read_map over the forms read, from the i-th on; p is
\* the reader's cursor, which stands after the closing brace
RECURSIVE MapPairs(_, _, _, _)

\* read_map counting the forms before it pairs them: an odd count is reported first
MapPairs_count_first(items, i, map, p) ==
    IF Len(items) % 2 = 1 THEN Err(UnevenHashMap(p), p)
    ELSE IF i > Len(items) THEN Ok(ValueHashMap(map), p)
    ELSE IF items[i].type # "Atom" THEN Err(UnhashableType(items[i], p), p)
    ELSE MapPairs(items, i + 2, Insert(map, items[i].atom, items[i + 1]), p)

\* read_map dropping a trailing form that has no partner
MapPairs_drop_trailing(items, i, map, p) ==
    IF i + 1 > Len(items) THEN Ok(ValueHashMap(map), p)
    ELSE IF items[i].type # "Atom" THEN Err(UnhashableType(items[i], p), p)
    ELSE MapPairs(items, i + 2, Insert(map, items[i].atom, items[i + 1]), p)

MapPairs(items, i, map, p) ==
    IF i > Len(items) THEN Ok(ValueHashMap(map), p)
    ELSE IF i + 1 > Len(items) THEN Err(UnevenHashMap(p), p)
    ELSE IF items[i].type # "Atom" THEN Err(UnhashableType(items[i], p), p)
    ELSE MapPairs(items, i + 2, Insert(map, items[i].atom, items[i + 1]), p)

RECURSIVE read_form(_, _)
RECURSIVE read_list_items(_, _, _, _)
RECURSIVE read_atom(_, _)

\* read_list_items taking the end of the tokens for the terminator
read_list_items_autoclose(toks, p, terminator, acc) ==
    LET t == reader_peek(toks, p) IN
    IF t = None THEN Ok(acc, p)
    ELSE IF t[1] = terminator THEN Ok(acc, p + 1)
    ELSE LET f == read_form(toks, p) IN
         IF ~f.ok THEN f
         ELSE read_list_items(toks, f.pos, terminator, Append(acc, f.value))

\* read_list_items, with the forms read so far in acc; value is the vector
read_list_items(toks, p, terminator, acc) ==
    LET t == reader_peek(toks, p) IN
    IF t = None THEN Err(UnexpectedEndOfInput(p), p)
    ELSE IF t[1] = terminator THEN Ok(acc, p + 1)
    ELSE LET f == read_form(toks, p) IN
         IF ~f.ok THEN f
         ELSE read_list_items(toks, f.pos, terminator, Append(acc, f.value))

read_list(toks, p) ==
    LET r == read_list_items(toks, p, Tok("RParen"), << >>) IN
    IF r.ok THEN Ok(ValueList(r.value), r.pos) ELSE r

read_vector(toks, p) ==
    LET r == read_list_items(toks, p, Tok("RBracket"), << >>) IN
    IF r.ok THEN Ok(ValueVector(r.value), r.pos) ELSE r

read_map(toks, p) ==
    LET r == read_list_items(toks, p, Tok("RBrace"), << >>) IN
    IF r.ok THEN MapPairs(r.value, 1, EmptyMap, r.pos) ELSE r

\* read_atom; read_form calls it with a token under the cursor
read_atom(toks, p) ==
    LET t == toks[p + 1]
        q == p + 1
    IN  IF t.tok \in {"Quote", "Quasiquote", "Unquote", "SpliceUnquote", "Deref"}
        THEN LET f == read_form(toks, q) IN
             IF ~f.ok THEN f
             ELSE Ok(ValueList(<<Symbol(MacroName(t)), f.value>>), f.pos)
        ELSE IF t.tok = "WithMeta"
        THEN LET metadata == read_form(toks, q) IN
             IF ~metadata.ok THEN metadata
             ELSE LET target == read_form(toks, metadata.pos) IN
                  IF ~target.ok THEN target
                  ELSE Ok(WithMetaList(metadata.value, target.value), target.pos)
        ELSE IF t.tok \in {"Symbol", "Keyword", "String"}
        THEN Ok(ValueAtom(AtomText(t.tok, t.text)), q)
        ELSE IF t.tok = "Int" THEN Ok(ValueAtom(AtomInt(t.int)), q)
        ELSE IF t.tok \in {"Nil", "True", "False"}
        THEN Ok(ValueAtom(AtomNamed(t.tok)), q)
        ELSE Err(UnexpectedToken(t, q), q)

read_form(toks, p) ==
    LET t == reader_peek(toks, p) IN
    IF t = None THEN Err(UnexpectedEndOfInput(p), p)
    ELSE IF t[1] = Tok("LParen") THEN read_list(toks, p + 1)
    ELSE IF t[1] = Tok("LBracket") THEN read_vector(toks, p + 1)
    ELSE IF t[1] = Tok("LBrace") THEN read_map(toks, p + 1)
    ELSE read_atom(toks, p)

\* read_str made to fail when tokens are left after the first form
ReadTokens_all_consumed(toks) ==
    IF toks = << >> THEN [ok |-> FALSE, error |-> NoInput]
    ELSE LET r == read_form(toks, 0) IN
         IF ~r.ok THEN [ok |-> FALSE, error |-> r.error]
         ELSE IF r.pos < Len(toks)
              THEN [ok |-> FALSE, error |-> UnexpectedToken(toks[r.pos + 1], r.pos)]
         ELSE [ok |-> TRUE, value |-> r.value]

\* what read_str does with the token vector of a finished tokenize()
ReadTokens(toks) ==
    IF toks = << >> THEN [ok |-> FALSE, error |-> NoInput]
    ELSE LET r == read_form(toks, 0) IN
         IF r.ok THEN [ok |-> TRUE, value |-> r.value]
         ELSE [ok |-> FALSE, error |-> r.error]

\* read_str as a function of its input; st is "panic" when tokenize aborted
read_str(s) ==
    LET t == tokenize(s) IN
    IF t.st = "panic" THEN t
    ELSE IF t.st = "err" THEN [st |-> "ok", result |-> [ok |-> FALSE, error |-> Parse(t.error)]]
    ELSE [st |-> "ok", result |-> ReadTokens(t.tokens)]

(***************************************************************************)
(* Printer (printer.rs)                                                    *)
(***************************************************************************)
\* escape_string
RECURSIVE escape_string(_)

\* escape_string with the backslash left out of its table
escape_string_no_backslash(string) ==
    IF string = << >> THEN << >>
    ELSE LET c == Head(string)
             replacement == CASE c = "\"" -> <<"\\", "\"">>
                              [] c = "\n" -> <<"\\", "n">>
                              [] OTHER -> <<c>>
         IN  replacement \o escape_string(Tail(string))

escape_string(string) ==
    IF string = << >> THEN << >>
    ELSE LET c == Head(string)
             replacement == CASE c = "\"" -> <<"\\", "\"">>
                              [] c = "\\" -> <<"\\", "\\">>
                              [] c = "\n" -> <<"\\", "n">>
                              [] OTHER -> <<c>>
         IN  replacement \o escape_string(Tail(string))

DigitChar(d) ==
    CASE d = 0 -> "0" [] d = 1 -> "1" [] d = 2 -> "2" [] d = 3 -> "3"
      [] d = 4 -> "4" [] d = 5 -> "5" [] d = 6 -> "6" [] d = 7 -> "7"
      [] d = 8 -> "8" [] d = 9 -> "9"

\* the decimal digits of -n, for n <= 0 (the magnitude of i32::MIN is no i32)
RECURSIVE DigitsOfNeg(_)
DigitsOfNeg(n) ==
    LET d == (10 - (n % 10)) % 10
        q == (n + d) \div 10
    IN  IF q = 0 THEN <<DigitChar(d)>> ELSE Append(DigitsOfNeg(q), DigitChar(d))

\* format!("{int}") of an i32
FormatInt(n) == IF n < 0 THEN <<"-">> \o DigitsOfNeg(n) ELSE DigitsOfNeg(-n)

PrAtom(atom, pretty) ==
    CASE atom.kind = "Symbol" -> atom.text
      [] atom.kind = "Keyword" -> <<":">> \o atom.text
      [] atom.kind = "String" ->
            IF pretty THEN atom.text
            ELSE <<"\"">> \o escape_string(atom.text) \o <<"\"">>
      [] atom.kind = "Int" -> FormatInt(atom.int)
      [] atom.kind = "Nil" -> <<"n", "i", "l">>
      [] atom.kind = "True" -> <<"t", "r", "u", "e">>
      [] atom.kind = "False" -> <<"f", "a", "l", "s", "e">>

\* the orders in which a HashMap's iterator may yield its keys
KeyOrders(map) ==
    {o \in [1..Cardinality(DOMAIN map) -> DOMAIN map] :
        \A i, j \in DOMAIN o : i # j => o[i] # o[j]}

\* the (key, value, key, value, ...) vector pr_str builds for a HashMap
Interleave(map, order) ==
    [i \in 1..(2 * Len(order)) |->
        IF i % 2 = 1 THEN ValueAtom(order[(i + 1) \div 2]) ELSE map[order[i \div 2]]]

\* pr_str and pr_list_items give the SET of texts the call may return: one
\* text, unless a HashMap is printed, whose iteration order is unspecified
RECURSIVE pr_str(_, _)
RECURSIVE pr_list_items(_)

pr_list_items(items) ==
    IF items = << >> THEN {<< >>}
    ELSE IF Len(items) = 1 THEN pr_str(items[1], FALSE)
    ELSE {a \o <<" ">> \o r :
            a \in pr_str(Head(items), FALSE), r \in pr_list_items(Tail(items))}

pr_str(value, pretty) ==
    CASE value.type = "Atom" -> {PrAtom(value.atom, pretty)}
      [] value.type = "List" ->
            {<<"(">> \o t \o <<")">> : t \in pr_list_items(value.items)}
      [] value.type = "Vector" ->
            {<<"[">> \o t \o <<"]">> : t \in pr_list_items(value.items)}
      [] value.type = "HashMap" ->
            UNION {{<<"{">> \o t \o <<"}">> :
                        t \in pr_list_items(Interleave(value.map, order))} :
                    order \in KeyOrders(value.map)}

PRETTYPRINT == FALSE

(***************************************************************************)
(* The state machine: read_str on an input, step by step, then pr_str on   *)
(* the value read, then read_str on the text printed.                      *)
(***************************************************************************)
\* one turn of the loop of Parser::tokenize: one parse_token call
TokenizeStep ==
    /\ pc = "tokenize"
    /\ LET r == parse_token(input, pos) IN
       CASE r.st = "token" ->
              /\ tokens' = Append(tokens, r.tok)
              /\ pos' = r.pos
              /\ UNCHANGED <<result, pc>>
         [] r.st = "none" ->
              /\ pos' = r.pos
              /\ pc' = "read"
              /\ UNCHANGED <<tokens, result>>
         [] r.st = "err" ->
              /\ pos' = r.error.pos
              /\ result' = Some([ok |-> FALSE, error |-> Parse(r.error)])
              /\ pc' = "done"
              /\ UNCHANGED tokens
         [] r.st = "panic" ->
              /\ pc' = "abort"
              /\ UNCHANGED <<pos, tokens, result>>
    /\ UNCHANGED <<input, output, printed, pass, origin>>
    /\ UNCHANGED replVars

\* read_str after tokenize returned Ok(tokens)
ReadStep ==
    /\ pc = "read"
    /\ LET r == ReadTokens(tokens) IN
       /\ result' = Some(r)
       /\ pc' = IF r.ok /\ pass = 1 THEN "print" ELSE "done"
    /\ UNCHANGED <<input, pos, tokens, output, printed, pass, origin>>
    /\ UNCHANGED replVars

\* print(eval(value)): eval is the identity
PrintStep ==
    /\ pc = "print"
    /\ \E text \in pr_str(result[1].value, PRETTYPRINT) : output' = Some(text)
    /\ printed' = Some(result[1].value)
    /\ pc' = "printed"
    /\ UNCHANGED <<input, pos, tokens, result, pass, origin>>
    /\ UNCHANGED replVars

\* the printed text is handed to read_str: a new Parser over it
ReadBack ==
    /\ pc = "printed"
    /\ input' = output[1]
    /\ pos' = 0
    /\ tokens' = << >>
    /\ result' = None
    /\ pass' = 2
    /\ pc' = "tokenize"
    /\ UNCHANGED <<output, printed, origin>>
    /\ UNCHANGED replVars

Next == TokenizeStep \/ ReadStep \/ PrintStep \/ ReadBack

\* the texts of at most n characters of the set chars
TextsOver(chars, n) == UNION {[1..k -> chars] : k \in 0..n}

\* no REPL is running: read_str and pr_str are called directly
NoRepl ==
    /\ loop = "none"
    /\ line = None
    /\ stdout = << >>
    /\ stderr = << >>
    /\ turn = 0

\* read_str is called on the text s
InitRead(s) ==
    /\ NoRepl
    /\ input = s
    /\ pos = 0
    /\ tokens = << >>
    /\ result = None
    /\ output = None
    /\ printed = None
    /\ pass = 1
    /\ origin = "read"
    /\ pc = "tokenize"

\* pr_str is called on the value v, which the caller built
InitPrint(v) ==
    /\ NoRepl
    /\ input = << >>
    /\ pos = 0
    /\ tokens = << >>
    /\ result = Some([ok |-> TRUE, value |-> v])
    /\ output = None
    /\ printed = None
    /\ pass = 1
    /\ origin = "built"
    /\ pc = "print"

(***************************************************************************)
(* The read-print REPL (bin/step1_read_print.rs): main's loop, one action  *)
(* per arm of the match on editor.readline's outcome.                      *)
(***************************************************************************)
\* str::trim: the text without its leading and trailing whitespace
RECURSIVE trim_start(_)
trim_start(s) ==
    IF s # << >> /\ is_whitespace(Head(s)) THEN trim_start(Tail(s)) ELSE s

RECURSIVE trim_end(_)
trim_end(s) ==
    IF s # << >> /\ is_whitespace(s[Len(s)])
    THEN trim_end(SubSeq(s, 1, Len(s) - 1)) ELSE s

trim(s) == trim_end(trim_start(s))

\* the outcomes of editor.readline
ReadlineOk(text) == [kind |-> "Ok", text |-> text]
ReadlineErr(kind) == [kind |-> kind]

\* the lines a user types
MaxTurns == 3

ReplLines ==
    {<< >>, <<" ">>, <<NBSP>>, <<",">>, <<";", "a">>,
     <<"1">>, <<" ", "(", ")", " ">>, <<"(", "1", ")", ")">>,
     <<"(">>, <<")">>, <<"\"">>, <<"{", "1", "}">>,
     <<POUND>>, <<"a", NBSP, "1">>}

\* Ok(input): trim, and unless the line is empty, rep is called: read_str
\* gets a new Parser over the trimmed line
ReplLine ==
    /\ loop = "readline" /\ turn < MaxTurns
    /\ \E text \in ReplLines :
        LET s == trim(text) IN
        /\ line' = Some(ReadlineOk(text))
        /\ IF s = << >>
           THEN UNCHANGED <<input, pos, tokens, result, output, pc, loop>>
           ELSE /\ input' = s
                /\ pos' = 0
                /\ tokens' = << >>
                /\ result' = None
                /\ output' = None
                /\ pc' = "tokenize"
                /\ loop' = "rep"
    /\ turn' = turn + 1
    /\ UNCHANGED <<printed, pass, origin, stdout, stderr>>

\* the match on rep's result: println! of the text, nothing on NoInput,
\* eprintln! of any other error; a panic in rep unwinds main
ReplShow ==
    /\ loop = "rep"
    /\ \/ /\ pc = "printed"
          /\ stdout' = Append(stdout, output[1])
          /\ loop' = "readline"
          /\ UNCHANGED stderr
       \/ /\ pc = "done"
          /\ stderr' = IF result[1].error = NoInput THEN stderr
                       ELSE Append(stderr, result[1].error)
          /\ loop' = "readline"
          /\ UNCHANGED stdout
       \/ /\ pc = "abort"
          /\ loop' = "panicked"
          /\ UNCHANGED <<stdout, stderr>>
    /\ pc' = "repl"
    /\ UNCHANGED <<input, pos, tokens, result, output, printed, pass, origin,
                   line, turn>>

\* Err(ReadlineError::Interrupted) => continue
ReplInterrupted ==
    /\ loop = "readline" /\ turn < MaxTurns
    /\ line' = Some(ReadlineErr("Interrupted"))
    /\ turn' = turn + 1
    /\ UNCHANGED <<input, pos, tokens, result, output, printed, pass, origin, pc,
                   loop, stdout, stderr>>

\* Err(ReadlineError::Eof) => break, and main returns
ReplEof ==
    /\ loop = "readline" /\ turn < MaxTurns
    /\ line' = Some(ReadlineErr("Eof"))
    /\ loop' = "exited"
    /\ turn' = turn + 1
    /\ UNCHANGED <<input, pos, tokens, result, output, printed, pass, origin, pc,
                   stdout, stderr>>

\* Err(e) => eprintln!, continue
ReplReadlineError ==
    /\ loop = "readline" /\ turn < MaxTurns
    /\ line' = Some(ReadlineErr("Io"))
    /\ stderr' = Append(stderr, ReadlineErr("Io"))
    /\ turn' = turn + 1
    /\ UNCHANGED <<input, pos, tokens, result, output, printed, pass, origin, pc,
                   loop, stdout>>

NextRepl ==
    \/ ReplLine \/ ReplInterrupted \/ ReplEof \/ ReplReadlineError
    \/ TokenizeStep \/ ReadStep \/ PrintStep \/ ReplShow

\* main has made the editor and enters its loop
InitRepl ==
    /\ input = << >>
    /\ pos = 0
    /\ tokens = << >>
    /\ result = None
    /\ output = None
    /\ printed = None
    /\ pass = 1
    /\ origin = "repl"
    /\ pc = "repl"
    /\ loop = "readline"
    /\ line = None
    /\ stdout = << >>
    /\ stderr = << >>
    /\ turn = 0

SpecRepl == InitRepl /\ [][NextRepl]_vars

(***************************************************************************)
(* Specifications: the same steps over different families of inputs        *)
(***************************************************************************)
\* Spec: read_str on the texts of brackets, reader macros and atoms
MaxLen == 4

Alphabet == {"(", ")", "[", "]", "{", "}", "'", "^", ":", "1", " "}

Init == \E s \in TextsOver(Alphabet, MaxLen) : InitRead(s)

Spec == Init /\ [][Next]_vars

\* SpecLex: read_str on the texts of blanks, comments, strings and atoms
MaxLexLen == 4

LexAlphabet == {" ", ",", NBSP, ";", "\n", "1", "a", "\"", "\\", "("}

InitLex == \E s \in TextsOver(LexAlphabet, MaxLexLen) : InitRead(s)

SpecLex == InitLex /\ [][Next]_vars

\* SpecMap: read_str on the hash-map literals { body }, the body made of at
\* most MaxForms pieces
MaxForms == 4

MapPieces == {<<"(", ")">>, <<"[", "]">>, <<"{", "}">>, <<":">>, <<"1">>,
              <<"(">>, <<")">>, <<"}">>}

RECURSIVE Concat(_)
Concat(texts) == IF texts = << >> THEN << >> ELSE Head(texts) \o Concat(Tail(texts))

InitMap ==
    \E k \in 0..MaxForms : \E pieces \in [1..k -> MapPieces] :
        InitRead(<<"{">> \o Concat(pieces) \o <<"}">>)

SpecMap == InitMap /\ [][Next]_vars

\* SpecMacro: read_str on a reader macro followed by an operand text
MaxOperandLen == 4

MacroLexemes == {<<"'">>, <<BACKQUOTE>>, <<"~">>, <<"~", "@">>, <<"@">>, <<"^">>}

OperandAlphabet == {"(", ")", "[", "]", "a", "1", " "}

InitMacro ==
    \E m \in MacroLexemes, operand \in TextsOver(OperandAlphabet, MaxOperandLen) :
        InitRead(m \o operand)

SpecMacro == InitMacro /\ [][Next]_vars

\* SpecBare: read_str on one bare sequence
MaxBareLen == 3

BareAlphabet == {"0", "1", "9", "-", "+", "a", POUND}

Numeral(n) == FormatInt(n)
WithLast(s, c) == [s EXCEPT ![Len(s)] = c]

\* the numerals around the ends of the i32 range, and the three names
EdgeTexts ==
    {Numeral(I32_MAX), WithLast(Numeral(I32_MAX), "6"), WithLast(Numeral(I32_MAX), "8"),
     Numeral(I32_MIN), WithLast(Numeral(I32_MIN), "7"), WithLast(Numeral(I32_MIN), "9"),
     <<"+">> \o Numeral(I32_MAX), <<"0">> \o Numeral(I32_MAX),
     Numeral(I32_MAX) \o <<"0">>, Numeral(I32_MIN) \o <<"0">>,
     <<"n", "i", "l">>, <<"t", "r", "u", "e">>, <<"f", "a", "l", "s", "e">>,
     <<"n", "i", "l", "1">>, <<"t", "r", "u">>}

BareTexts == (TextsOver(BareAlphabet, MaxBareLen) \ {<< >>}) \cup EdgeTexts

InitBare == \E s \in BareTexts : InitRead(s)

SpecBare == InitBare /\ [][Next]_vars

\* SpecRoundTrip: pr_str and the read-back, on the values read_str returns
\* for a text and on the values a caller builds
MaxRtLen == 4
MaxAtomLen == 2
MaxItems == 2

RtAlphabet == {"(", ")", "[", "]", "\"", "\\", "n", "1", "-", ":", " "}

BuiltAlphabet == {"a", "n", "1", "\"", "\\", "\n", E_ACUTE}

BuiltInts == {0, 7, -1, I32_MAX, I32_MIN}

BuiltAtoms ==
    {AtomText(kind, text) :
        kind \in {"Symbol", "Keyword", "String"},
        text \in TextsOver(BuiltAlphabet, MaxAtomLen)}
    \cup {AtomInt(n) : n \in BuiltInts}
    \cup {AtomNamed(kind) : kind \in {"Nil", "True", "False"}}

BuiltLeaves ==
    {ValueAtom(a) :
        a \in {AtomText("Symbol", <<"a">>), AtomText("String", <<"\\">>),
               AtomInt(-1), AtomNamed("Nil")}}

ListsOver(values) ==
    UNION {{ValueList(items), ValueVector(items)} :
             items \in UNION {[1..k -> values] : k \in 0..MaxItems}}

BuiltValues ==
    {ValueAtom(a) : a \in BuiltAtoms}
    \cup ListsOver(BuiltLeaves)
    \cup {ValueList(<<v>>) : v \in ListsOver(BuiltLeaves)}

InitRoundTrip ==
    \/ \E s \in TextsOver(RtAlphabet, MaxRtLen) : InitRead(s)
    \/ \E v \in BuiltValues : InitPrint(v)

SpecRoundTrip == InitRoundTrip /\ [][Next]_vars

\* SpecChars: read_str on the texts that mix one-byte and two-byte characters
MaxCharsLen == 4

CharsAlphabet == {POUND, NOT_SIGN, E_ACUTE, NBSP, "a", "(", "\"", " "}

InitChars == \E s \in TextsOver(CharsAlphabet, MaxCharsLen) : InitRead(s)

SpecChars == InitChars /\ [][Next]_vars

(***************************************************************************)
(* Properties                                                              *)
(***************************************************************************)
RECURSIVE NoHashMap(_)
NoHashMap(v) ==
    CASE v.type = "Atom" -> TRUE
      [] v.type = "HashMap" -> FALSE
      [] OTHER -> \A i \in DOMAIN v.items : NoHashMap(v.items[i])

\* the read-back of the printed text has ended
ReadBackOver == pass = 2 /\ pc \in {"done", "abort"}

\* the read-back returned the value that was printed
ReadBackEqual == pc = "done" /\ result = Some([ok |-> TRUE, value |-> printed[1]])

\* C1, as amended: for every value v without a HashMap that read_str returned,
\* read_str(pr_str(v, false)) returns Ok(v).
C1_ReadValuesRoundTrip ==
    (ReadBackOver /\ origin = "read" /\ NoHashMap(printed[1])) => ReadBackEqual

\* a two-element list or vector that was read, printed and read back
C1_Witness ==
    /\ ReadBackOver /\ origin = "read" /\ ReadBackEqual
    /\ printed[1].type \in {"List", "Vector"}
    /\ Len(printed[1].items) = 2

\* C1, as claimed: for EVERY value v built only from Atom, List and Vector,
\* read_str(pr_str(v, false)) returns Ok(v).
C1_EveryValueRoundTrips ==
    (ReadBackOver /\ NoHashMap(printed[1])) => ReadBackEqual

IsStringAtom(v) == v.type = "Atom" /\ v.atom.kind = "String"

\* C2: tokenizing the non-pretty rendering of Atom::String(s) yields exactly
\* one token, String(s).
C2_StringRendersToOneToken ==
    (pass = 2 /\ pc # "tokenize" /\ IsStringAtom(printed[1]))
        => (pc # "abort" /\ tokens = <<TokText("String", printed[1].atom.text)>>)

ErrNoInput == [ok |-> FALSE, error |-> NoInput]

Blank(s) == \A i \in DOMAIN s : s[i] = "," \/ is_whitespace(s[i])

\* a comment, after blanks at most
OnlyComment(s) == \E i \in DOMAIN s : s[i] = ";" /\ Blank(SubSeq(s, 1, i - 1))

\* C3: an empty input, an input of whitespace and commas only, and an input
\* holding only a comment tokenize to no token and read_str returns NoInput;
\* read_str returns NoInput exactly when tokenize returned Ok of no token.
C3_BlankInputIsNoInput ==
    (pass = 1 /\ origin = "read" /\ pc # "tokenize") =>
        /\ (Blank(input) \/ OnlyComment(input)) =>
              /\ pc # "abort"
              /\ tokens = << >>
              /\ pc = "done" => result = Some(ErrNoInput)
        /\ pc = "done" =>
              (result = Some(ErrNoInput)
                  <=> (tokens = << >> /\ result[1].error.err # "Parse"))

Has(s, c) == \E i \in DOMAIN s : s[i] = c

\* C4: when a comment outside a string is followed by a newline and further
\* text, the tokens are those before the comment followed by those after the
\* newline.
C4_CommentEndsAtNewline ==
    \A i, j \in DOMAIN input :
        LET before == SubSeq(input, 1, i - 1)
            comment == SubSeq(input, i + 1, j - 1)
            after == SubSeq(input, j + 1, Len(input))
        IN  (/\ pass = 1 /\ origin = "read" /\ pc # "tokenize"
             /\ i < j /\ input[i] = ";" /\ input[j] = "\n"
             /\ ~Has(before, ";") /\ ~Has(before, "\"")
             /\ ~Has(comment, "\n") /\ ~Has(after, ";")
             /\ tokenize(before).st = "ok" /\ tokenize(after).st = "ok"
             /\ tokenize(after).tokens # << >>)
            => (pc # "abort"
                /\ tokens = tokenize(before).tokens \o tokenize(after).tokens)

\* the forms between the opening brace that starts the input and its closing
\* brace, when all of them are well formed
MapItems == read_list_items(tokens, 1, Tok("RBrace"), << >>)

\* the first read_str call has returned, on a hash-map literal whose inner
\* forms are well formed and closed
MapLiteralRead ==
    /\ pass = 1 /\ origin = "read" /\ result # None
    /\ result[1].ok \/ result[1].error.err # "Parse"
    /\ tokens # << >> /\ tokens[1] = Tok("LBrace")
    /\ MapItems.ok

\* the key positions holding a List, Vector or HashMap; with paired, only
\* those followed by a value form
CompoundKeys(items, paired) ==
    {i \in DOMAIN items :
        /\ i % 2 = 1
        /\ items[i].type # "Atom"
        /\ paired => i + 1 <= Len(items)}

Least(S) == CHOOSE x \in S : \A y \in S : x <= y

FailsUnhashable(keys) ==
    /\ ~result[1].ok
    /\ result[1].error.err = "UnhashableType"
    /\ result[1].error.value = MapItems.value[Least(keys)]

\* C5, as amended: if a key position that is followed by a value form holds a
\* List, Vector or HashMap, read_str fails with UnhashableType carrying the
\* first such key.
C5_PairedCompoundKeyUnhashable ==
    (MapLiteralRead /\ CompoundKeys(MapItems.value, TRUE) # {})
        => FailsUnhashable(CompoundKeys(MapItems.value, TRUE))

\* a literal with two compound keys, reported for the first
C5_Witness ==
    /\ MapLiteralRead
    /\ Cardinality(CompoundKeys(MapItems.value, TRUE)) = 2
    /\ MapItems.value[1] # MapItems.value[3]
    /\ FailsUnhashable(CompoundKeys(MapItems.value, TRUE))

\* C5, as claimed: if ANY key position (1st, 3rd, ...) holds a List, Vector or
\* HashMap, read_str fails with UnhashableType carrying that value.
C5_AnyCompoundKeyUnhashable ==
    (MapLiteralRead /\ CompoundKeys(MapItems.value, FALSE) # {})
        => FailsUnhashable(CompoundKeys(MapItems.value, FALSE))

FailsUneven == ~result[1].ok /\ result[1].error.err = "UnevenHashMap"

\* C6, as amended: if the number of inner forms is odd and every key that is
\* followed by a value form is an Atom, read_str fails with UnevenHashMap.
C6_OddCountUneven ==
    (/\ MapLiteralRead
     /\ Len(MapItems.value) % 2 = 1
     /\ CompoundKeys(MapItems.value, TRUE) = {})
        => FailsUneven

\* three forms, the unpaired last one a compound
C6_Witness ==
    /\ MapLiteralRead
    /\ Len(MapItems.value) = 3
    /\ MapItems.value[3].type # "Atom"
    /\ FailsUneven

\* C6, as claimed: if the number of inner forms is odd, read_str fails with
\* UnevenHashMap.
C6_EveryOddCountUneven ==
    (MapLiteralRead /\ Len(MapItems.value) % 2 = 1) => FailsUneven

(***************************************************************************)
(* The shape of a token sequence, followed with a stack of the sequences   *)
(* and reader macros that are open.  A frame is an open list, vector or    *)
(* hash-map (n forms so far; key: the last form in a key position is a     *)
(* compound; bad: a key followed by a value was a compound), or a reader   *)
(* macro waiting for need more forms.  The bottom frame waits for the one  *)
(* form read_str reads.                                                    *)
(***************************************************************************)
Openers == {"LParen", "LBracket", "LBrace"}
Closers == {"RParen", "RBracket", "RBrace"}
Macros1 == {"Quote", "Quasiquote", "Unquote", "SpliceUnquote", "Deref"}

CloserOf(opener) ==
    CASE opener = "LParen" -> "RParen"
      [] opener = "LBracket" -> "RBracket"
      [] opener = "LBrace" -> "RBrace"

OpenFrame(opener) ==
    [k |-> "open", close |-> CloserOf(opener), n |-> 0, key |-> FALSE, bad |-> FALSE]
WaitFrame(need) == [k |-> "wait", need |-> need]

Pop(stack) == SubSeq(stack, 1, Len(stack) - 1)

\* the stack after a form ended inside its top frame
RECURSIVE FormEnded(_, _)
FormEnded(stack, compound) ==
    LET top == stack[Len(stack)] IN
    IF top.k = "open"
    THEN Append(Pop(stack),
                [top EXCEPT !.n = top.n + 1,
                            !.key = IF top.n % 2 = 0 THEN compound ELSE top.key,
                            !.bad = top.bad \/ (top.n % 2 = 1 /\ top.key)])
    ELSE IF top.need > 1 THEN Append(Pop(stack), WaitFrame(top.need - 1))
    ELSE IF Len(stack) = 1 THEN << >>
    ELSE FormEnded(Pop(stack), TRUE)

\* "complete": the first form ends with token used; "incomplete": the tokens
\* end first, with open sequences and reader macros unfinished; and, when strict, "stray": a closer that does not close the
\* innermost open sequence, where a form is due; "badmap": the closing brace
\* of a hash-map with a compound key or an odd number of forms.  When not
\* strict, a stray closer is passed over and every hash-map is taken.
RECURSIVE Shape(_, _, _, _)
Shape(toks, i, stack, strict) ==
    IF stack = << >> THEN [st |-> "complete", used |-> i - 1]
    ELSE IF i > Len(toks) THEN [st |-> "incomplete", open |-> Len(stack) - 1]
    ELSE
    LET t == toks[i].tok
        top == stack[Len(stack)]
    IN  IF t \in Openers THEN Shape(toks, i + 1, Append(stack, OpenFrame(t)), strict)
        ELSE IF t \in Macros1 THEN Shape(toks, i + 1, Append(stack, WaitFrame(1)), strict)
        ELSE IF t = "WithMeta" THEN Shape(toks, i + 1, Append(stack, WaitFrame(2)), strict)
        ELSE IF t \in Closers
        THEN IF top.k = "open" /\ top.close = t
             THEN IF strict /\ t = "RBrace" /\ (top.n % 2 = 1 \/ top.bad)
                  THEN [st |-> "badmap"]
                  ELSE Shape(toks, i + 1, FormEnded(Pop(stack), TRUE), strict)
             ELSE IF strict THEN [st |-> "stray"]
             ELSE Shape(toks, i + 1, stack, strict)
        ELSE Shape(toks, i + 1, FormEnded(stack, FALSE), strict)

ShapeOf(toks, strict) == Shape(toks, 1, <<WaitFrame(1)>>, strict)

\* the first read_str call tokenized its input to at least one token, and
\* has returned
ReaderReturned ==
    /\ pass = 1 /\ origin = "read" /\ result # None
    /\ result[1].ok \/ result[1].error.err # "Parse"
    /\ tokens # << >>

FailsEndOfInput == ~result[1].ok /\ result[1].error.err = "UnexpectedEndOfInput"

\* C7, as amended: when the tokens end before the first form is complete,
\* and no token before the end is a closer where a form is due that does not
\* close the innermost open sequence, nor the closing brace of an inner
\* hash-map with a compound key or an odd number of forms, read_str fails
\* with UnexpectedEndOfInput.
C7_UnfinishedFormIsEndOfInput ==
    (/\ ReaderReturned
     /\ ShapeOf(tokens, TRUE).st = "incomplete"
     /\ ShapeOf(tokens, TRUE).open >= 1)
        => FailsEndOfInput

\* a reader macro without operand, two sequences deep
C7_Witness ==
    /\ ReaderReturned /\ FailsEndOfInput
    /\ ShapeOf(tokens, TRUE).st = "incomplete"
    /\ Len(tokens) = 3
    /\ tokens[1].tok \in Openers /\ tokens[2].tok \in Openers
    /\ tokens[3].tok \in Macros1 \cup {"WithMeta"}

\* C7, as claimed: whenever the tokens end before the first form is complete,
\* read_str fails with UnexpectedEndOfInput.
C7_EveryUnfinishedFormIsEndOfInput ==
    (/\ ReaderReturned
     /\ ShapeOf(tokens, FALSE).st = "incomplete"
     /\ ShapeOf(tokens, FALSE).open >= 1)
        => FailsEndOfInput

\* the symbols the reader macros are to be rewritten to
ClaimedMacroSymbol(t) ==
    Symbol(CASE t = "Quote" -> <<"q", "u", "o", "t", "e">>
             [] t = "Quasiquote" -> <<"q", "u", "a", "s", "i", "q", "u", "o", "t", "e">>
             [] t = "Unquote" -> <<"u", "n", "q", "u", "o", "t", "e">>
             [] t = "SpliceUnquote" ->
                   <<"s", "p", "l", "i", "c", "e", "-", "u", "n", "q", "u", "o", "t", "e">>
             [] t = "Deref" -> <<"d", "e", "r", "e", "f">>
             [] t = "WithMeta" -> <<"w", "i", "t", "h", "-", "m", "e", "t", "a">>)

ReturnsValue(v) == result[1] = [ok |-> TRUE, value |-> v]

\* C8: a reader-macro token followed by well-formed form(s) reads as the list
\* (name FORM); with-meta reads the metadata first and the target second and
\* gives (with-meta TARGET METADATA).
C8_MacrosDesugar ==
    ReaderReturned =>
        LET t == tokens[1].tok
            first == read_form(tokens, 1)
        IN  /\ (t \in Macros1 /\ first.ok)
                  => ReturnsValue(ValueList(<<ClaimedMacroSymbol(t), first.value>>))
            /\ (t = "WithMeta" /\ first.ok)
                  => LET second == read_form(tokens, first.pos) IN
                     second.ok =>
                        ReturnsValue(ValueList(<<ClaimedMacroSymbol(t),
                                                 second.value, first.value>>))

\* with-meta read with a metadata form and a different target form
C8_Witness ==
    /\ ReaderReturned /\ result[1].ok
    /\ tokens[1].tok = "WithMeta"
    /\ read_form(tokens, 1).value = result[1].value.items[3]
    /\ result[1].value.items[2] # result[1].value.items[3]

IsBare(s) == s # << >> /\ \A i \in DOMAIN s : is_symbol_character(s[i])

RECURSIVE StripZeros(_)
StripZeros(s) == IF Len(s) > 1 /\ Head(s) = "0" THEN StripZeros(Tail(s)) ELSE s

\* a sign at most, then digits
IsNumeral(s) ==
    LET body == IF s # << >> /\ s[1] \in {"+", "-"} THEN Tail(s) ELSE s IN
    body # << >> /\ \A i \in DOMAIN body : body[i] \in Digits

\* the numeral without a plus sign, leading zeros and the sign of zero
Canonical(s) ==
    LET body == StripZeros(IF s[1] \in {"+", "-"} THEN Tail(s) ELSE s) IN
    IF s[1] = "-" /\ body # <<"0">> THEN <<"-">> \o body ELSE body

\* a <= b for digit sequences of one length
RECURSIVE DigitsLeq(_, _)
DigitsLeq(a, b) ==
    \/ a = << >>
    \/ DigitVal(Head(a)) < DigitVal(Head(b))
    \/ Head(a) = Head(b) /\ DigitsLeq(Tail(a), Tail(b))

\* the canonical numeral c denotes a number of the i32 range
InI32Range(c) ==
    LET negative == c[1] = "-"
        digits == IF negative THEN Tail(c) ELSE c
        limit == IF negative THEN Tail(FormatInt(I32_MIN)) ELSE FormatInt(I32_MAX)
    IN  Len(digits) < Len(limit) \/ (Len(digits) = Len(limit) /\ DigitsLeq(digits, limit))

\* the token claimed for the bare sequence s is the token t
ClaimedBareToken(s, t) ==
    IF s = <<"n", "i", "l">> THEN t = Tok("Nil")
    ELSE IF s = <<"t", "r", "u", "e">> THEN t = Tok("True")
    ELSE IF s = <<"f", "a", "l", "s", "e">> THEN t = Tok("False")
    ELSE IF IsNumeral(s) /\ InI32Range(Canonical(s))
         THEN t.tok = "Int" /\ FormatInt(t.int) = Canonical(s)
    ELSE t = TokText("Symbol", s)

\* C9: a bare sequence gives Nil, True or False for the three names, else Int
\* with exactly its value when it is a numeral of the i32 range, else
\* Symbol(text), and never an error.
C9_BareSequenceClassified ==
    (pass = 1 /\ origin = "read" /\ pc # "tokenize" /\ IsBare(input))
        => /\ pc # "abort"
           /\ Len(tokens) = 1
           /\ ClaimedBareToken(input, tokens[1])

\* the byte offsets at which each token of s starts and ends
RECURSIVE SpansFrom(_, _, _)
SpansFrom(s, p, acc) ==
    LET r == parse_token(s, p) IN
    IF r.st # "token" THEN acc
    ELSE SpansFrom(s, r.pos,
                   Append(acc, [start |-> consume_whitespace(s, p).pos, end |-> r.pos]))

\* the number of characters before byte offset p
CharsBefore(s, p) == Cardinality({i \in DOMAIN s : ByteLen(SubSeq(s, 1, i)) <= p})

\* the character offsets between the start of the last token the reader
\* consumed and the start of the next one (the end of the input if none)
ReaderOffsets ==
    LET spans == SpansFrom(input, 0, << >>)
        cursor == read_form(tokens, 0).pos
        from == IF cursor = 0 THEN 0 ELSE CharsBefore(input, spans[cursor].start)
        to == IF cursor < Len(spans) THEN CharsBefore(input, spans[cursor + 1].start)
              ELSE Len(input)
    IN  from..to

\* C10: a position-carrying error returned by read_str carries the character
\* offset in the source text at which it was detected.
C10_ErrorsCarryCharacterOffset ==
    (pass = 1 /\ origin = "read" /\ result # None /\ ~result[1].ok) =>
        LET e == result[1].error IN
        /\ e.err = "Parse" => e.error.pos = CharsBefore(input, pos)
        /\ e.err \in {"UnexpectedToken", "UnexpectedEndOfInput",
                      "UnhashableType", "UnevenHashMap"}
              => e.pos \in ReaderOffsets

\* the read of the last line has yielded r
ReadYields(r) == result = Some(r)

\* C11: a line whose read yields NoInput writes nothing, a line whose read
\* yields another error writes that error, a line that reads to a value
\* writes the value's text, and in all three cases the loop goes on to the
\* next readline; an empty line and an interrupt write nothing and keep the
\* loop going; the loop ends on end-of-file only.
C11_LoopEndsOnlyOnEof ==
    [][/\ (loop = "readline" /\ turn' = turn + 1) =>
            LET l == line'[1] IN
            /\ loop' \in {"readline", "rep"} \/ (l.kind = "Eof" /\ loop' = "exited")
            /\ l.kind = "Interrupted" => loop' = "readline"
            /\ l.kind = "Ok" =>
                  loop' = (IF trim(l.text) = << >> THEN "readline" ELSE "rep")
            /\ l.kind # "Io" => (stdout' = stdout /\ stderr' = stderr)
       /\ (loop = "rep" /\ loop' # "rep") =>
            /\ loop' = "readline"
            /\ \/ /\ ReadYields(ErrNoInput)
                  /\ stdout' = stdout /\ stderr' = stderr
               \/ /\ result # None /\ ~result[1].ok /\ result[1].error # NoInput
                  /\ stdout' = stdout
                  /\ stderr' = Append(stderr, result[1].error)
               \/ /\ result # None /\ result[1].ok
                  /\ output[1] \in pr_str(result[1].value, FALSE)
                  /\ stdout' = Append(stdout, output[1])
                  /\ stderr' = stderr]_vars

\* the tokens of the first complete, well-formed form
FirstForm == SubSeq(tokens, 1, ShapeOf(tokens, TRUE).used)

\* C12: when the tokens begin with a complete well-formed form, read_str
\* returns the value of that form alone, read from the shortest prefix that
\* reads to a value; the tokens after it are not consumed and neither change
\* the result nor produce an error.
C12_FirstFormOnly ==
    (ReaderReturned /\ ShapeOf(tokens, TRUE).st = "complete") =>
        /\ result[1].ok
        /\ result[1] = ReadTokens(FirstForm)
        /\ read_form(tokens, 0).pos = Len(FirstForm)
        /\ \A j \in 1..(Len(FirstForm) - 1) : ~ReadTokens(SubSeq(tokens, 1, j)).ok

\* an empty list read with a closer and a further form left behind it
C12_Witness ==
    /\ ReaderReturned /\ ShapeOf(tokens, TRUE).st = "complete"
    /\ result[1].ok /\ result[1].value = ValueList(<< >>)
    /\ Len(tokens) = Len(FirstForm) + 2
    /\ tokens[Len(FirstForm) + 1].tok \in Closers
    /\ tokens[Len(tokens)].tok \notin Closers

\* the tokenizer of the first read_str call is at work or has ended
Tokenizing == pass = 1 /\ origin = "read"

\* the cursor is within the input and on a character boundary of it
CursorOnBoundary == pos <= ByteLen(input) /\ peek(input, pos) # "panic"

\* a parse_token call that returned a token moved the cursor forward
TokenAdvances == (Tokenizing /\ Len(tokens') > Len(tokens)) => pos' > pos

\* C13: on every input tokenize returns Ok or Err without aborting: the
\* cursor stays within the input and on a character boundary, and every
\* parse_token call that returns a token strictly advances the cursor.
C13_TokenizeEndsWithoutAbort ==
    /\ [](Tokenizing => (pc # "abort" /\ CursorOnBoundary))
    /\ [][TokenAdvances]_vars


====
